---- MODULE Spec2Model ----
(***************************************************************************)
(* A model of tests/siocoutq.c, the RDS reachability probe: option parsing *)
(* (main), socket-group setup (run_test, rds_socket), the sequential send  *)
(* scheduler (send_on_n_sockets_seq, send_on_one_socket), the drain spin   *)
(* (spin_on_one_socket) and the timing summary (run_test, usec_sub).       *)
(*                                                                         *)
(* The program is single threaded.  Every system call is one step of the   *)
(* model and its outcome (success, or failure with some errno) is chosen   *)
(* by the environment.                                                     *)
(***************************************************************************)
EXTENDS Integers, Sequences, FiniteSets, TLC

(***************************************************************************)
(* Bounds of the model.                                                    *)
(***************************************************************************)
\* options on the command line
MaxOpts == 3
\* the small packet counts 0..MaxSmall are tried as -c arguments
MaxSmall == 2
\* positive answers the queue-length query may give per spin in Spec
MaxBusy == 2

(***************************************************************************)
(* unsigned long (64 bit) values are four 16-bit limbs, least significant  *)
(* first, so that the conversions of the program keep their widths.        *)
(***************************************************************************)
W == 2 ^ 16

UL(n) == <<n % W, (n \div W) % W, 0, 0>>

ULZero == UL(0)

ULIsZero(x) == x = ULZero

\* the value of x as an integer; meaningful when x < 2^31
ULFits(x) == x[3] = 0 /\ x[4] = 0 /\ x[2] < W \div 2
ULVal(x) == x[2] * W + x[1]

\* a < b on unsigned long
ULLt(a, b) ==
    \/ a[4] < b[4]
    \/ a[4] = b[4] /\ a[3] < b[3]
    \/ a[4] = b[4] /\ a[3] = b[3] /\ a[2] < b[2]
    \/ a[4] = b[4] /\ a[3] = b[3] /\ a[2] = b[2] /\ a[1] < b[1]

\* x << b for b < 16, modulo 2^64
ShlBits(x, b) ==
    LET lo(k) == (x[k] * (2 ^ b)) % W
        hi(k) == x[k] \div (2 ^ (16 - b))
    IN  <<lo(1), (lo(2) + hi(1)) % W, (lo(3) + hi(2)) % W, (lo(4) + hi(3)) % W>>

\* x << s for s < 32, modulo 2^64
ULShl(x, s) ==
    IF s >= 16 THEN ShlBits(<<0, x[1], x[2], x[3]>>, s - 16) ELSE ShlBits(x, s)

\* x * n modulo 2^64, for an unsigned long x and 0 <= n < 2^15
ULMulSmall(x, n) ==
    LET p1 == x[1] * n
        p2 == x[2] * n + p1 \div W
        p3 == x[3] * n + p2 \div W
        p4 == x[4] * n + p3 \div W
    IN  <<p1 % W, p2 % W, p3 % W, p4 % W>>

\* (int)x : the low 32 bits of x as a two's complement int
ULToInt(x) ==
    IF x[2] >= W \div 2 THEN (x[2] - W) * W + x[1] ELSE x[2] * W + x[1]

\* a / b of C (truncation toward zero), b > 0
CDiv(a, b) == IF a >= 0 THEN a \div b ELSE -((-a) \div b)

(***************************************************************************)
(* Program constants.                                                      *)
(***************************************************************************)
nsockets_default == 8
nsockets_min == 1
nsockets_max == 32
SpinCeiling == 100000

AF_UNSPEC == "AF_UNSPEC"
AF_INET == "AF_INET"
AF_INET6 == "AF_INET6"
Families == {AF_INET, AF_INET6}

\* the errno values a failing system call may leave
Errnos == {11, 105}

(***************************************************************************)
(* Inputs.  An option argument is <<v, tail>>: the number strtoull reads   *)
(* and the characters that follow it.                                      *)
(***************************************************************************)
NoTail == <<>>

CountArgs ==
    {<<UL(v), NoTail>> : v \in 0 .. MaxSmall}
        \cup {<<UL(nsockets_default), NoTail>>}
        \cup {<<UL(2), <<"g">>>>, <<<<1, 0, 1, 0>>, NoTail>>, <<UL(1), <<"x">>>>}

SocketArgs ==
    {<<UL(v), NoTail>> : v \in {0, 1, 2, nsockets_max, nsockets_max + 1}}
        \cup {<<UL(1), <<"k">>>>, <<UL(2), <<"k", "x">>>>, <<<<1, 0, 1, 0>>, NoTail>>}

TosArgs == {<<UL(0), NoTail>>, <<UL(4), NoTail>>, <<UL(4), <<"x">>>>}

\* what getaddrinfo can answer: no entry, or a first entry of some family
AddrResults == {"fail", "AF_UNIX", AF_INET, AF_INET6}

Timevals == {[tv_sec |-> 5, tv_usec |-> 999000], [tv_sec |-> 6, tv_usec |-> 500]}

VARIABLES
    pc,            \* where the program is
    exit_status,   \* -1 while running, then the process's exit status
    err,           \* the diagnostic printed by die()/usage(), "" if none
    nopts,         \* options getopt has returned so far
    count_set,     \* TRUE once a -c option was accepted
    opt_count, opt_srcaddr, opt_dstaddr, opt_tos, use_siocoutq,
    nsockets, src_set, num_sock_set,
    i,             \* run_test's loop index
    socks,         \* the RDS sockets created so far, in creation order
    ufd,           \* TRUE while rds_socket's helper UDP socket is open
    nprobes,       \* route probes (helper connects) issued
    idx,           \* send_on_n_sockets_seq's loop index
    sidx,          \* send_on_one_socket's loop index
    ret,           \* send_on_n_sockets_seq's ret
    sp_cnt, pend,  \* spin_on_one_socket's locals
    spin_count,    \* the spin count printed last
    busy,          \* positive answers the queue query may still give (-1: any number)
    nq,            \* queue-length queries issued by the current spin
    npos,          \* queries of the current spin that reported pending bytes
    qfail,         \* TRUE when a query of the current spin failed
    start, end, tdiff,
    out            \* the summary line printed by run_test, <<>> if none

optVars == <<nopts, count_set, opt_count, opt_srcaddr, opt_dstaddr, opt_tos, use_siocoutq,
             nsockets, src_set, num_sock_set>>
setupVars == <<i, socks, ufd, nprobes>>
schedVars == <<idx, sidx, ret>>
spinVars == <<sp_cnt, pend, spin_count, busy, nq, npos, qfail>>
reportVars == <<start, end, tdiff, out>>
vars == <<pc, exit_status, err, optVars, setupVars, schedVars, spinVars, reportVars>>

NoTime == [tv_sec |-> 0, tv_usec |-> 0]

(***************************************************************************)
(* The state when main is entered: the file-scope initialisers.            *)
(***************************************************************************)
Init ==
    /\ pc = "getopt"
    /\ exit_status = -1
    /\ err = ""
    /\ nopts = 0
    /\ count_set = FALSE
    /\ opt_count = ULZero
    /\ opt_srcaddr = [family |-> AF_UNSPEC, port |-> 0]
    /\ opt_dstaddr = [family |-> AF_UNSPEC, port |-> 0]
    /\ opt_tos = ULZero
    /\ use_siocoutq = FALSE
    /\ nsockets = UL(nsockets_default)
    /\ src_set = FALSE
    /\ num_sock_set = FALSE
    /\ i = 0
    /\ socks = <<>>
    /\ ufd = FALSE
    /\ nprobes = 0
    /\ idx = 0
    /\ sidx = 0
    /\ ret = 0
    /\ sp_cnt = 0
    /\ pend = 0
    /\ spin_count = 0
    /\ busy = MaxBusy
    /\ nq = 0
    /\ npos = 0
    /\ qfail = FALSE
    /\ start = NoTime
    /\ end = NoTime
    /\ tdiff = 0
    /\ out = <<>>

(***************************************************************************)
(* die() and usage(), and die_errno(): print and exit(1).                  *)
(***************************************************************************)
die(msg) ==
    /\ pc' = "exit"
    /\ exit_status' = 1
    /\ err' = msg

\* the diagnostic is printed but the run goes on to its send phase
die_errno_goes_on(msg) ==
    /\ pc' = "start"
    /\ err' = msg
    /\ UNCHANGED exit_status

die_errno(msg) ==
    /\ pc' = "exit"
    /\ exit_status' = 1
    /\ err' = msg

(***************************************************************************)
(* parse_long: the value after an optional k/m/g suffix; fails, leaving    *)
(* the target alone, when characters remain.                               *)
(***************************************************************************)
parse_long(arg) ==
    LET val == arg[1]
        tail == arg[2]
        c == IF tail = <<>> THEN "" ELSE tail[1]
        shift == IF c \in {"k", "K"} THEN 10
                 ELSE IF c \in {"m", "M"} THEN 20
                 ELSE IF c \in {"g", "G"} THEN 30 ELSE 0
        rest == IF shift > 0 THEN Tail(tail) ELSE tail
    IN  IF rest # <<>> THEN [ok |-> FALSE, val |-> ULZero]
        ELSE [ok |-> TRUE, val |-> IF shift > 0 THEN ULShl(val, shift) ELSE val]

\* the range check without its upper limit
nsockets_ok_no_max(n) == ~ULLt(n, UL(nsockets_min))

\* main's range check of -n
nsockets_ok(n) == ~ULLt(n, UL(nsockets_min)) /\ ~ULLt(UL(nsockets_max), n)

\* the family check left out
family_mismatch_never(set, dfam, sfam) == FALSE

\* main's family check
family_mismatch(set, dfam, sfam) == set /\ dfam # sfam

\* the group size is never clamped
clamp_never(set, count, n) == n

\* the clamp without its test for a zero count
clamp_zero_too(set, count, n) == IF ~set /\ ULLt(count, n) THEN count ELSE n

\* main's clamp of the group size by the packet count
clamp_nsockets(set, count, n) ==
    IF ~set /\ ~ULIsZero(count) /\ ULLt(count, n) THEN count ELSE n

(***************************************************************************)
(* main: the getopt loop, one action per option.                           *)
(***************************************************************************)
OptC ==
    /\ pc = "getopt" /\ nopts < MaxOpts
    /\ \E a \in CountArgs :
         LET r == parse_long(a) IN
         IF ~r.ok
         THEN /\ die("Bad packet count")
              /\ UNCHANGED <<opt_count, count_set>>
         ELSE /\ opt_count' = r.val
              /\ count_set' = TRUE
              /\ UNCHANGED <<pc, exit_status, err>>
    /\ nopts' = nopts + 1
    /\ UNCHANGED <<opt_srcaddr, opt_dstaddr, opt_tos, use_siocoutq, nsockets,
                   src_set, num_sock_set>>
    /\ UNCHANGED <<setupVars, schedVars, spinVars, reportVars>>

OptN ==
    /\ pc = "getopt" /\ nopts < MaxOpts
    /\ \E a \in SocketArgs :
         LET r == parse_long(a) IN
         IF ~r.ok
         THEN /\ die("Invalid number of sockets")
              /\ UNCHANGED <<nsockets, num_sock_set>>
         ELSE IF ~nsockets_ok(r.val)
         THEN /\ die("Invalid number of sockets")
              /\ nsockets' = r.val
              /\ UNCHANGED num_sock_set
         ELSE /\ nsockets' = r.val
              /\ num_sock_set' = TRUE
              /\ UNCHANGED <<pc, exit_status, err>>
    /\ nopts' = nopts + 1
    /\ UNCHANGED <<count_set, opt_count, opt_srcaddr, opt_dstaddr, opt_tos, use_siocoutq, src_set>>
    /\ UNCHANGED <<setupVars, schedVars, spinVars, reportVars>>

OptI ==
    /\ pc = "getopt" /\ nopts < MaxOpts
    /\ \E a \in AddrResults :
         IF a = "fail"
         THEN /\ die("Unknown source address")
              /\ UNCHANGED <<opt_srcaddr, src_set>>
         ELSE IF a \notin Families
         THEN /\ die("getaddrinfo() returns unsupported family")
              /\ UNCHANGED <<opt_srcaddr, src_set>>
         ELSE /\ opt_srcaddr' = [family |-> a, port |-> 0]
              /\ src_set' = TRUE
              /\ UNCHANGED <<pc, exit_status, err>>
    /\ nopts' = nopts + 1
    /\ UNCHANGED <<count_set, opt_count, opt_dstaddr, opt_tos, use_siocoutq, nsockets,
                   num_sock_set>>
    /\ UNCHANGED <<setupVars, schedVars, spinVars, reportVars>>

OptQ ==
    /\ pc = "getopt" /\ nopts < MaxOpts
    /\ \E a \in TosArgs :
         LET r == parse_long(a) IN
         IF ~r.ok
         THEN /\ die("Bad tos")
              /\ UNCHANGED opt_tos
         ELSE /\ opt_tos' = r.val
              /\ UNCHANGED <<pc, exit_status, err>>
    /\ nopts' = nopts + 1
    /\ UNCHANGED <<count_set, opt_count, opt_srcaddr, opt_dstaddr, use_siocoutq, nsockets,
                   src_set, num_sock_set>>
    /\ UNCHANGED <<setupVars, schedVars, spinVars, reportVars>>

OptS ==
    /\ pc = "getopt" /\ nopts < MaxOpts
    /\ use_siocoutq' = TRUE
    /\ nopts' = nopts + 1
    /\ UNCHANGED <<pc, exit_status, err>>
    /\ UNCHANGED <<count_set, opt_count, opt_srcaddr, opt_dstaddr, opt_tos, nsockets,
                   src_set, num_sock_set>>
    /\ UNCHANGED <<setupVars, schedVars, spinVars, reportVars>>

OptUnknown ==
    /\ pc = "getopt" /\ nopts < MaxOpts
    /\ die("Unknown option")
    /\ nopts' = nopts + 1
    /\ UNCHANGED <<count_set, opt_count, opt_srcaddr, opt_dstaddr, opt_tos, use_siocoutq,
                   nsockets, src_set, num_sock_set>>
    /\ UNCHANGED <<setupVars, schedVars, spinVars, reportVars>>

\* run_test's socket loop test, i < nsockets: the next socket, or the send phase
run_test_loop(ii, n) == IF ULLt(UL(ii), n) THEN "rds_socket" ELSE "start"

(***************************************************************************)
(* main after the getopt loop: the positional argument, the family check   *)
(* and the clamp; then run_test is entered.                                *)
(***************************************************************************)
MainArgs ==
    /\ pc = "getopt"
    /\ \E nargs \in 0 .. 2, a \in AddrResults :
         IF nargs # 1
         THEN /\ die("Missing destination address")
              /\ UNCHANGED <<opt_dstaddr, nsockets>>
         ELSE IF a = "fail"
         THEN /\ die("Cannot parse destination address")
              /\ UNCHANGED <<opt_dstaddr, nsockets>>
         ELSE IF a \notin Families
         THEN /\ die("getaddrinfo() returns unsupported family")
              /\ UNCHANGED <<opt_dstaddr, nsockets>>
         ELSE IF family_mismatch(src_set, a, opt_srcaddr.family)
         THEN /\ die("Source and destination address family are not the same")
              /\ opt_dstaddr' = [family |-> a, port |-> 0]
              /\ UNCHANGED nsockets
         ELSE /\ opt_dstaddr' = [family |-> a, port |-> 0]
              /\ nsockets' = clamp_nsockets(num_sock_set, opt_count, nsockets)
              /\ pc' = run_test_loop(0, nsockets')
              /\ UNCHANGED <<exit_status, err>>
    /\ UNCHANGED <<nopts, count_set, opt_count, opt_srcaddr, opt_tos, use_siocoutq,
                   src_set, num_sock_set>>
    /\ UNCHANGED <<setupVars, schedVars, spinVars, reportVars>>

(***************************************************************************)
(* rds_socket, one action per system call.  A failing call ends the        *)
(* process through die_errno().                                            *)
(***************************************************************************)
EphemeralPorts == {32768, 60999}

NewSocket(fd) ==
    [fd |-> fd, open |-> TRUE, bound |-> <<>>, tos |-> FALSE, sent |-> 0, spun |-> 0]

\* the socket rds_socket is working on
cur == Len(socks)

\* rds_socket returns fd; run_test stores it and moves to the next socket
rds_socket_return ==
    /\ i' = i + 1
    /\ pc' = run_test_loop(i + 1, nsockets)

\* htons on a little-endian host: the two bytes of a port swapped
htons(x) == ((x % 256) * 256) + ((x \div 256) % 256)

\* the reset of the destination port is forgotten
reset_port_forgotten(a) == a

\* *dst_port = 0
reset_port(a) == [a EXCEPT !.port = 0]

\* every socket without an explicit source probes the route
need_probe_unless_set == ~src_set

\* if (src->addr4.sin_family == AF_UNSPEC)
need_probe == opt_srcaddr.family = AF_UNSPEC

\* the TOS is set whatever its value
tos_always == TRUE

\* if (opt_tos && ...)
tos_configured == ~ULIsZero(opt_tos)

\* fd = socket(PF_RDS, SOCK_SEQPACKET, 0)
RdsSocket ==
    /\ pc = "rds_socket"
    /\ \E e \in {0} \cup Errnos :
         IF e # 0
         THEN /\ die_errno("unable to create RDS socket")
              /\ UNCHANGED socks
         ELSE /\ socks' = Append(socks, NewSocket(3 + Len(socks)))
              /\ pc' = IF need_probe THEN "udp_socket" ELSE "bind"
              /\ UNCHANGED <<exit_status, err>>
    /\ UNCHANGED <<i, ufd, nprobes>>
    /\ UNCHANGED <<optVars, schedVars, spinVars, reportVars>>

\* ufd = socket(dst family, SOCK_DGRAM, 0), then the placeholder port
UdpSocket ==
    /\ pc = "udp_socket"
    /\ \E e \in {0} \cup Errnos :
         IF e # 0
         THEN /\ die_errno("unable to create UDP socket")
              /\ UNCHANGED <<ufd, opt_dstaddr>>
         ELSE IF opt_dstaddr.family \notin Families
         THEN /\ die_errno("unknown destination address family")
              /\ ufd' = TRUE
              /\ UNCHANGED opt_dstaddr
         ELSE /\ ufd' = TRUE
              /\ opt_dstaddr' = [opt_dstaddr EXCEPT !.port = htons(1)]
              /\ pc' = "connect"
              /\ UNCHANGED <<exit_status, err>>
    /\ UNCHANGED <<i, socks, nprobes>>
    /\ UNCHANGED <<nopts, count_set, opt_count, opt_srcaddr, opt_tos, use_siocoutq,
                   nsockets, src_set, num_sock_set>>
    /\ UNCHANGED <<schedVars, spinVars, reportVars>>

\* connect(ufd, dst), then the destination port is reset
Connect ==
    /\ pc = "connect"
    /\ nprobes' = nprobes + 1
    /\ \E e \in {0} \cup Errnos :
         IF e # 0
         THEN /\ die_errno("unable to connect")
              /\ UNCHANGED opt_dstaddr
         ELSE /\ opt_dstaddr' = reset_port(opt_dstaddr)
              /\ pc' = "getsockname"
              /\ UNCHANGED <<exit_status, err>>
    /\ UNCHANGED <<i, socks, ufd>>
    /\ UNCHANGED <<nopts, count_set, opt_count, opt_srcaddr, opt_tos, use_siocoutq,
                   nsockets, src_set, num_sock_set>>
    /\ UNCHANGED <<schedVars, spinVars, reportVars>>

\* getsockname(ufd, src), then close(ufd)
Getsockname ==
    /\ pc = "getsockname"
    /\ \E e \in {0} \cup Errnos :
         IF e # 0
         THEN /\ die_errno("getsockname failed")
              /\ UNCHANGED <<opt_srcaddr, ufd>>
         ELSE /\ \E p \in EphemeralPorts :
                   opt_srcaddr' = [family |-> opt_dstaddr.family, port |-> p]
              /\ ufd' = FALSE
              /\ pc' = "bind"
              /\ UNCHANGED <<exit_status, err>>
    /\ UNCHANGED <<i, socks, nprobes>>
    /\ UNCHANGED <<nopts, count_set, opt_count, opt_dstaddr, opt_tos, use_siocoutq,
                   nsockets, src_set, num_sock_set>>
    /\ UNCHANGED <<schedVars, spinVars, reportVars>>

\* the source port is cleared, then bind(fd, src); without a TOS the socket is ready
Bind ==
    /\ pc = "bind"
    /\ IF opt_srcaddr.family \notin Families
       THEN /\ die("unknown source address family")
            /\ UNCHANGED <<opt_srcaddr, socks, i>>
       ELSE /\ opt_srcaddr' = [opt_srcaddr EXCEPT !.port = 0]
            /\ \E e \in {0} \cup Errnos :
                 IF e # 0
                 THEN /\ die_errno("bind() failed")
                      /\ UNCHANGED <<socks, i>>
                 ELSE /\ socks' = [socks EXCEPT ![cur].bound = opt_srcaddr']
                      /\ IF tos_configured
                         THEN pc' = "settos" /\ UNCHANGED i
                         ELSE rds_socket_return
                      /\ UNCHANGED <<exit_status, err>>
    /\ UNCHANGED <<ufd, nprobes>>
    /\ UNCHANGED <<nopts, count_set, opt_count, opt_dstaddr, opt_tos, use_siocoutq,
                   nsockets, src_set, num_sock_set>>
    /\ UNCHANGED <<schedVars, spinVars, reportVars>>

\* ioctl(fd, SIOCRDSSETTOS, &opt_tos)
SetTos ==
    /\ pc = "settos"
    /\ \E e \in {0} \cup Errnos :
         IF e # 0
         THEN /\ die_errno("ERROR: failed to set TOS")
              /\ UNCHANGED <<socks, i>>
         ELSE /\ socks' = [socks EXCEPT ![cur].tos = TRUE]
              /\ rds_socket_return
              /\ UNCHANGED <<exit_status, err>>
    /\ UNCHANGED <<ufd, nprobes>>
    /\ UNCHANGED <<optVars, schedVars, spinVars, reportVars>>

(***************************************************************************)
(* run_test after the setup loop: the start timestamp, then the scheduler  *)
(* send_on_n_sockets_seq(socket, dst, nsockets, opt_count, dst_len).       *)
(***************************************************************************)
\* the scheduler's int parameters
n_socks == ULToInt(nsockets)
per_sock == ULToInt(opt_count)

\* send_on_n_sockets_seq's loop test, idx < n_socks
seq_loop(k) == IF k < n_socks THEN "sendto" ELSE "report"

\* the scheduler never breaks out of its loop
seq_break_never(r) == FALSE

\* if (ret) break
seq_break(r) == r # 0

\* the group is walked from its last socket
seq_sock_reversed == Len(socks) - idx

\* nsocks[idx]: the socket the scheduler is servicing
seq_sock == idx + 1

\* the busy answers the environment has for one spin
spin_budget == IF busy < 0 THEN busy ELSE MaxBusy

\* the spin is started before ret is looked at
after_send_one_spin_first(r) ==
    /\ ret' = r
    /\ sidx' = 0
    /\ IF use_siocoutq
       THEN /\ pc' = "spin"
            /\ sp_cnt' = 0
            /\ nq' = 0
            /\ npos' = 0
            /\ qfail' = FALSE
            /\ busy' = spin_budget
            /\ UNCHANGED <<idx, pend, spin_count>>
       ELSE IF seq_break(r)
       THEN /\ pc' = "report"
            /\ UNCHANGED <<idx, spinVars>>
       ELSE /\ idx' = idx + 1
            /\ pc' = seq_loop(idx + 1)
            /\ UNCHANGED spinVars

\* send_on_one_socket returned r on socket idx: break, spin, or the next socket
after_send_one(r) ==
    /\ ret' = r
    /\ sidx' = 0
    /\ IF seq_break(r)
       THEN /\ pc' = "report"
            /\ UNCHANGED <<idx, spinVars>>
       ELSE IF use_siocoutq
       THEN /\ pc' = "spin"
            /\ sp_cnt' = 0
            /\ nq' = 0
            /\ npos' = 0
            /\ qfail' = FALSE
            /\ busy' = spin_budget
            /\ UNCHANGED <<idx, pend, spin_count>>
       ELSE /\ idx' = idx + 1
            /\ pc' = seq_loop(idx + 1)
            /\ UNCHANGED spinVars

StartRun ==
    /\ pc = "start"
    /\ start' \in Timevals
    /\ idx' = 0
    /\ sidx' = 0
    /\ ret' = 0
    /\ pc' = seq_loop(0)
    /\ UNCHANGED <<exit_status, err, end, tdiff, out>>
    /\ UNCHANGED <<optVars, setupVars, spinVars>>

\* the send loop tests its bound only after a first send
send_more_after_first(k) == k = 0 \/ k < per_sock

\* send_on_one_socket's loop test, idx < per_sock
send_more(k) == k < per_sock

\* one sendto(fd, NULL, 0, 0, dst, msglen) of send_on_one_socket's loop
Sendto ==
    /\ pc = "sendto"
    /\ send_more(sidx)
    /\ socks' = [socks EXCEPT ![seq_sock].sent = @ + 1]
    /\ \E e \in {0} \cup Errnos :
         IF e # 0
         THEN after_send_one(e)
         ELSE /\ sidx' = sidx + 1
              /\ UNCHANGED <<pc, idx, ret, spinVars>>
    /\ UNCHANGED <<exit_status, err, i, ufd, nprobes>>
    /\ UNCHANGED <<optVars, reportVars>>

\* send_on_one_socket's loop is over: it returns 0
SendDone ==
    /\ pc = "sendto"
    /\ ~send_more(sidx)
    /\ after_send_one(0)
    /\ UNCHANGED <<exit_status, err>>
    /\ UNCHANGED <<optVars, setupVars, reportVars>>

(***************************************************************************)
(* spin_on_one_socket: one action per ioctl(fd, TIOCOUTQ, &pend).          *)
(***************************************************************************)
\* the loop test without its ceiling
spin_continue_no_ceiling(p, c) == p # 0

\* the loop test without its test of the pending count
spin_continue_to_ceiling(p, c) == c < SpinCeiling

\* while (pend && sp_cnt < 100000)
spin_continue(p, c) == p # 0 /\ c < SpinCeiling

\* the answers the query can give: 0, or a positive count while the queue is busy
PendAnswers == IF busy = 0 THEN {0} ELSE {0, 1}

\* a negative spin count ends the scheduler's loop
spin_return_abort(c) ==
    /\ spin_count' = c
    /\ socks' = [socks EXCEPT ![seq_sock].spun = @ + 1]
    /\ IF c < 0
       THEN idx' = idx /\ pc' = "report"
       ELSE idx' = idx + 1 /\ pc' = seq_loop(idx + 1)

\* spin_on_one_socket returns c: the scheduler prints it and takes the next socket
spin_return(c) ==
    /\ spin_count' = c
    /\ socks' = [socks EXCEPT ![seq_sock].spun = @ + 1]
    /\ idx' = idx + 1
    /\ pc' = seq_loop(idx + 1)

SpinQuery ==
    /\ pc = "spin"
    /\ nq' = nq + 1
    /\ \/ \E e \in Errnos :
            /\ sp_cnt' = -e
            /\ qfail' = TRUE
            /\ spin_return(-e)
            /\ UNCHANGED <<pend, busy, npos>>
       \/ \E p \in PendAnswers :
            /\ pend' = p
            /\ sp_cnt' = sp_cnt + 1
            /\ busy' = IF p # 0 /\ busy > 0 THEN busy - 1 ELSE busy
            /\ npos' = IF p # 0 THEN npos + 1 ELSE npos
            /\ UNCHANGED qfail
            /\ IF spin_continue(p, sp_cnt + 1)
               THEN UNCHANGED <<pc, idx, socks, spin_count>>
               ELSE spin_return(sp_cnt + 1)
    /\ UNCHANGED <<exit_status, err, i, ufd, nprobes, sidx, ret>>
    /\ UNCHANGED <<optVars, reportVars>>

(***************************************************************************)
(* run_test after the scheduler: the end timestamp, the summary line and   *)
(* the return value, which main returns as the exit status.                *)
(***************************************************************************)
\* returns a - b in usecs
usec_sub(a, b) == (a.tv_sec - b.tv_sec) * 1000000 + a.tv_usec - b.tv_usec

\* tdiff = usec_sub(&end, &start) / 1000
elapsed_msec(e, s) == CDiv(usec_sub(e, s), 1000)

\* (int)(opt_count * nsockets)
total_packets(count, n) == ULToInt(ULMulSmall(count, ULVal(n)))

\* run_test reports a failed send to its caller
run_test_result_ret == IF ret # 0 THEN 1 ELSE 0

\* run_test's return value
run_test_result == 0

Report ==
    /\ pc = "report"
    /\ \E t \in Timevals :
         /\ end' = t
         /\ tdiff' = elapsed_msec(t, start)
         /\ out' = [sockets |-> ULToInt(nsockets), msec |-> elapsed_msec(t, start),
                    packets |-> total_packets(opt_count, nsockets)]
    /\ pc' = "exit"
    /\ exit_status' = run_test_result
    /\ UNCHANGED <<err, start>>
    /\ UNCHANGED <<optVars, setupVars, schedVars, spinVars>>

Next ==
    \/ OptC \/ OptN \/ OptI \/ OptQ \/ OptS \/ OptUnknown
    \/ MainArgs
    \/ RdsSocket \/ UdpSocket \/ Connect \/ Getsockname \/ Bind \/ SetTos
    \/ StartRun \/ Sendto \/ SendDone \/ SpinQuery
    \/ Report

Spec == Init /\ [][Next]_vars

(***************************************************************************)
(* The drain spin on its own: spin_on_one_socket is entered on the only    *)
(* socket of a group (siocoutq -s -n 1 dst), and the queue-length query    *)
(* may report pending bytes any number of times.                           *)
(***************************************************************************)
InitSpin ==
    /\ pc = "spin"
    /\ exit_status = -1
    /\ err = ""
    /\ nopts = 2
    /\ count_set = FALSE
    /\ opt_count = ULZero
    /\ \E f \in Families :
         /\ opt_srcaddr = [family |-> f, port |-> 0]
         /\ opt_dstaddr = [family |-> f, port |-> 0]
         /\ socks = <<[NewSocket(3) EXCEPT !.bound = [family |-> f, port |-> 0]]>>
    /\ opt_tos = ULZero
    /\ use_siocoutq = TRUE
    /\ nsockets = UL(1)
    /\ src_set = FALSE
    /\ num_sock_set = TRUE
    /\ i = 1
    /\ ufd = FALSE
    /\ nprobes = 1
    /\ idx = 0
    /\ sidx = 0
    /\ ret = 0
    /\ sp_cnt = 0
    /\ pend = 0
    /\ spin_count = 0
    /\ busy = -1
    /\ nq = 0
    /\ npos = 0
    /\ qfail = FALSE
    /\ start = CHOOSE t \in Timevals : TRUE
    /\ end = NoTime
    /\ tdiff = 0
    /\ out = <<>>

NextSpin == SpinQuery

SpecSpin == InitSpin /\ [][NextSpin]_vars

SpecSpinFair == SpecSpin /\ WF_vars(SpinQuery)

(***************************************************************************)
(* C3: the drain spin terminates: it never issues more than 100000         *)
(* queries, and when no query fails the count it returns is >= 0 and       *)
(* < 100001, and is exactly 100000 when every query reported pending bytes.*)
(***************************************************************************)
SpinReturned == pc # "spin"

SpinBounded ==
    /\ nq <= SpinCeiling
    /\ (pc = "spin" /\ ~qfail) => (sp_cnt >= 0 /\ sp_cnt < SpinCeiling)
    /\ (SpinReturned /\ ~qfail) =>
          /\ spin_count >= 0
          /\ spin_count < SpinCeiling + 1
          /\ (npos = nq => spin_count = SpinCeiling)

\* C3: the spin is always SpinBounded and it eventually returns
C3_SpinTerminates == []SpinBounded /\ <>SpinReturned

\* every query reported pending bytes and the spin stopped at the ceiling
C3_Witness ==
    SpinReturned /\ ~qfail /\ nq = SpinCeiling /\ npos = nq /\ spin_count = SpinCeiling

(***************************************************************************)
(* Vocabulary of the properties.                                           *)
(***************************************************************************)
\* the diagnostics of main: the run was refused before run_test
OptionErrors ==
    {"Bad packet count", "Invalid number of sockets", "Unknown source address",
     "getaddrinfo() returns unsupported family", "Bad tos", "Unknown option",
     "Missing destination address", "Cannot parse destination address",
     "Source and destination address family are not the same"}

\* the diagnostics of rds_socket
SetupErrors ==
    {"unable to create RDS socket", "unable to create UDP socket",
     "unknown destination address family", "unable to connect", "getsockname failed",
     "unknown source address family", "bind() failed", "ERROR: failed to set TOS"}

\* main has called run_test
RunEntered == pc # "getopt" /\ err \notin OptionErrors

\* the send phase has begun
SendPhase == pc \in {"sendto", "spin", "report"} \/ (pc = "exit" /\ exit_status = 0)

Group == 1 .. Len(socks)

NoSendYet == \A j \in Group : socks[j].sent = 0 /\ socks[j].spun = 0

\* the group size as a number of [1, 32]
GroupSizeInRange ==
    /\ ULFits(nsockets)
    /\ ULVal(nsockets) >= 1
    /\ ULVal(nsockets) <= 32

\* the run ended with every send of every socket successful
CleanRun == pc = "exit" /\ exit_status = 0 /\ ret = 0

\* the run ended after a failed send
AbortedRun == pc = "exit" /\ exit_status = 0 /\ ret # 0

(***************************************************************************)
(* C1: first failure stops the run: once a send has failed on socket k,    *)
(* no further send or spin is issued on any socket; the sockets after k    *)
(* have no send and no spin, socket k has no spin, and the sockets before  *)
(* k keep exactly their per-socket count of sends.                         *)
(***************************************************************************)
FailureStopped ==
    ret # 0 =>
      /\ pc \in {"report", "exit"}
      /\ idx + 1 \in Group
      /\ socks[idx + 1].sent >= 1
      /\ socks[idx + 1].spun = 0
      /\ \A j \in Group : j > idx + 1 => socks[j].sent = 0 /\ socks[j].spun = 0
      /\ \A j \in Group : j < idx + 1 => socks[j].sent = per_sock

NothingAfterFailure ==
    ret # 0 => (ret' = ret /\ idx' = idx /\ socks' = socks)

\* C1: FailureStopped holds in every state and NothingAfterFailure in every step
C1_FirstFailureStopsRun == []FailureStopped /\ [][NothingAfterFailure]_vars

\* a send failed on the second of at least three sockets, after the first was spun on
C1_Witness ==
    /\ AbortedRun /\ idx = 1 /\ Len(socks) >= 3
    /\ per_sock >= 2 /\ socks[1].sent = per_sock /\ socks[1].spun = 1
    /\ socks[2].sent = 2 /\ socks[3].sent = 0

(***************************************************************************)
(* C2: sockets are serviced in group-index order: a send or a spin is      *)
(* issued only on the socket at the scheduler's index, while no later      *)
(* socket has been sent or spun on, and the index never goes back.         *)
(***************************************************************************)
InGroupOrder ==
    /\ idx' >= idx
    /\ \A j \in Group :
         (socks'[j].sent # socks[j].sent \/ socks'[j].spun # socks[j].spun) =>
           /\ j = idx + 1
           /\ \A k \in Group : k > j => socks[k].sent = 0 /\ socks[k].spun = 0
           /\ \A k \in Group : k # j => socks'[k] = socks[k]

\* C2: every step of the run is InGroupOrder
C2_GroupIndexOrder == [][InGroupOrder]_vars

\* the third socket is being sent on after two sockets got all their sends
C2_Witness ==
    /\ pc = "sendto" /\ idx = 2 /\ per_sock >= 2
    /\ socks[1].sent = per_sock /\ socks[2].sent = per_sock /\ socks[3].sent = 1
    /\ Len(socks) >= 4

(***************************************************************************)
(* C4, as the specification words it: with -c 1, no source and no -n, a    *)
(* run without failure creates 8 sockets, sends 1 probe on each and        *)
(* reports 8 packets.                                                      *)
(***************************************************************************)
Scenario1 == CleanRun /\ opt_count = UL(1) /\ ~src_set /\ ~num_sock_set

C4_Original ==
    Scenario1 =>
      /\ Len(socks) = 8
      /\ \A j \in Group : socks[j].sent = 1
      /\ out.packets = 8

(***************************************************************************)
(* C4, amended: with -c 1, no source and no -n the group size is clamped   *)
(* to the packet count: a run without failure creates exactly 1 socket,    *)
(* sends exactly 1 probe on it and reports 1 socket and 1 packet.          *)
(***************************************************************************)
C4_Scenario1Clamped ==
    Scenario1 =>
      /\ Len(socks) = 1
      /\ socks[1].sent = 1
      /\ out.sockets = 1
      /\ out.packets = 1

C4_Witness == Scenario1 /\ count_set /\ Len(socks) = 1 /\ out.packets = 1

(***************************************************************************)
(* C5, as the specification words it: whenever a packet count smaller than *)
(* 8 is supplied and -n is not, the group size equals the packet count.    *)
(***************************************************************************)
C5_Original ==
    (RunEntered /\ count_set /\ ~num_sock_set /\ ULLt(opt_count, UL(8))) =>
      nsockets = opt_count

(***************************************************************************)
(* C5, amended: whenever a non-zero packet count smaller than 8 is         *)
(* supplied and -n is not, the group size equals the packet count (-c 2:   *)
(* 2 sockets, 2 sends on each in a run without failure, 4 reported); a     *)
(* packet count of 0 or of 8 and more leaves the group size at 8; once -n  *)
(* has set the group size only another -n changes it.                      *)
(***************************************************************************)
ClampedGroupSize ==
    /\ (RunEntered /\ ~num_sock_set) =>
         nsockets = IF count_set /\ ~ULIsZero(opt_count) /\ ULLt(opt_count, UL(8))
                    THEN opt_count ELSE UL(8)
    /\ (CleanRun /\ ~num_sock_set /\ opt_count = UL(2)) =>
         /\ Len(socks) = 2
         /\ \A j \in Group : socks[j].sent = 2
         /\ out.packets = 4

ExplicitSizeKept == (num_sock_set /\ ~OptN) => nsockets' = nsockets

\* C5 (amended): ClampedGroupSize in every state, ExplicitSizeKept in every step
C5_GroupSizeClamping == []ClampedGroupSize /\ [][ExplicitSizeKept]_vars

C5_Witness ==
    /\ CleanRun /\ count_set /\ ~num_sock_set /\ opt_count = UL(2)
    /\ Len(socks) = 2 /\ out.packets = 4

(***************************************************************************)
(* C6: the group size is in [1, 32] whenever run_test has been entered     *)
(* (so in every state in which a socket is created or a send is issued),   *)
(* and never more sockets exist than the group size; a state with a group  *)
(* size outside [1, 32] is the exit with status 1, no socket created.      *)
(***************************************************************************)
C6_GroupSizeInRange ==
    /\ (RunEntered \/ socks # <<>>) => (GroupSizeInRange /\ Len(socks) <= ULVal(nsockets))
    /\ ~GroupSizeInRange =>
         /\ pc = "exit" /\ exit_status = 1
         /\ err = "Invalid number of sockets"
         /\ socks = <<>>

\* -c and -n were both given and the last of 32 sockets is being sent on
C6_Witness ==
    /\ pc = "sendto" /\ count_set /\ num_sock_set
    /\ nsockets = UL(32) /\ Len(socks) = 32 /\ socks[32].sent >= 1

(***************************************************************************)
(* C7: when an explicit source address and the destination are of          *)
(* different families, the process has exited with status 1 and no socket  *)
(* was created: no RDS socket, no helper socket, no probe, no send.        *)
(***************************************************************************)
C7_FamilyMismatchRejected ==
    (src_set /\ opt_dstaddr.family \in Families
        /\ opt_srcaddr.family # opt_dstaddr.family) =>
      /\ pc = "exit" /\ exit_status = 1
      /\ err = "Source and destination address family are not the same"
      /\ socks = <<>> /\ ~ufd /\ nprobes = 0
      /\ out = <<>>

C7_Witness ==
    /\ src_set /\ opt_srcaddr.family = AF_INET /\ opt_dstaddr.family = AF_INET6
    /\ pc = "exit" /\ exit_status = 1

(***************************************************************************)
(* C8: after a run aborted by a failed send on socket k, the reported      *)
(* total counts only the sockets whose sends completed, the k sockets      *)
(* before it, and not the group size times the per-socket count.           *)
(***************************************************************************)
C8_PartialTotal ==
    AbortedRun =>
      /\ \A j \in Group : j < idx + 1 => socks[j].sent = per_sock
      /\ \A j \in Group : j > idx + 1 => socks[j].sent = 0
      /\ out.packets = idx * per_sock

(***************************************************************************)
(* C9: a setup failure ends the process with status 1 before any send:     *)
(* after a diagnostic of rds_socket the process has exited with status 1   *)
(* and no send or spin was issued; and whenever the send phase has begun,  *)
(* all N sockets exist, are bound, and are TOS-tagged when a TOS is set.   *)
(***************************************************************************)
C9_SetupFailureFatal ==
    /\ err \in SetupErrors => (pc = "exit" /\ exit_status = 1 /\ NoSendYet /\ out = <<>>)
    /\ (SendPhase \/ ~NoSendYet) =>
         /\ err = ""
         /\ Len(socks) = ULVal(nsockets)
         /\ \A j \in Group :
              /\ socks[j].open
              /\ socks[j].bound = [family |-> opt_dstaddr.family, port |-> 0]
              /\ socks[j].tos = ~ULIsZero(opt_tos)

\* bind failed on the third socket of the group
C9_Witness ==
    /\ pc = "exit" /\ exit_status = 1 /\ err = "bind() failed"
    /\ Len(socks) = 3 /\ socks[2].bound # <<>> /\ socks[3].bound = <<>>

(***************************************************************************)
(* C10: a failed send does not end the process early: when the process     *)
(* has exited after a failed send, the end timestamp was taken, the        *)
(* summary was printed and the status is 0; status 1 comes with a          *)
(* diagnostic of main or rds_socket only, before any send.                 *)
(***************************************************************************)
C10_SendFailureExitsZero ==
    /\ (pc = "exit" /\ ret # 0) =>
         /\ exit_status = 0
         /\ end \in Timevals
         /\ out # <<>>
         /\ err = ""
    /\ (pc = "exit" /\ exit_status # 0) =>
         /\ exit_status = 1
         /\ err \in OptionErrors \cup SetupErrors
         /\ NoSendYet /\ ret = 0

C10_Witness ==
    /\ AbortedRun /\ out # <<>> /\ end \in Timevals
    /\ \E j \in Group : socks[j].sent >= 2

(***************************************************************************)
(* C11: the elapsed time printed is the microsecond difference of the two  *)
(* timestamps converted to milliseconds with its fraction kept: the        *)
(* printed msec times 1000 is usec_sub(end, start).                        *)
(***************************************************************************)
C11_FractionalMsec ==
    out # <<>> => out.msec * 1000 = usec_sub(end, start)

(***************************************************************************)
(* C12: in a run without send failure every socket of the group is issued  *)
(* exactly opt_count sends and the total printed is the group size times   *)
(* opt_count, for every packet count main accepts.                         *)
(***************************************************************************)
C12_ExactlyCountSends ==
    CleanRun =>
      /\ \A j \in Group : socks[j].sent >= 0 /\ UL(socks[j].sent) = opt_count
      /\ out.packets = Len(socks) * socks[1].sent

(***************************************************************************)
(* C13: placement of the drain spin.  With -s every socket the scheduler   *)
(* has left was spun on exactly once and no other socket was (so the       *)
(* sockets spun on are a prefix of the group, and a socket with a send has *)
(* its predecessor, hence every earlier socket, spun on); a spin runs only *)
(* after all sends of its socket succeeded and while no later socket has a *)
(* send; the socket of a failed send is never spun on.  Without -s no      *)
(* queue-length query is ever issued.                                      *)
(***************************************************************************)
SendsPerSocket == IF per_sock > 0 THEN per_sock ELSE 0

C13_SpinPlacement ==
    /\ \A j \in Group :
         /\ socks[j].spun = IF use_siocoutq /\ j <= idx THEN 1 ELSE 0
         /\ j <= idx => socks[j].sent = SendsPerSocket
         /\ (use_siocoutq /\ socks[j].sent > 0 /\ j > 1) => socks[j - 1].spun = 1
    /\ pc = "spin" =>
         /\ use_siocoutq /\ ret = 0
         /\ socks[idx + 1].sent = SendsPerSocket
         /\ \A k \in Group : k > idx + 1 => socks[k].sent = 0
    /\ ret # 0 => (idx + 1 \in Group /\ socks[idx + 1].spun = 0)
    /\ ~use_siocoutq => (nq = 0 /\ pc # "spin")

\* the first socket was spun on after its sends and the second has no send yet
C13_Witness ==
    /\ use_siocoutq /\ pc = "sendto" /\ idx = 1 /\ Len(socks) >= 2
    /\ per_sock >= 2 /\ socks[1].sent = per_sock /\ socks[1].spun = 1
    /\ socks[2].sent = 0 /\ socks[2].spun = 0

(***************************************************************************)
(* C14: a failing queue-length query is not fatal.  The spin stops at its  *)
(* first failed query, whatever the number of successful queries before    *)
(* it, and returns minus the errno; the scheduler prints it, moves to the  *)
(* next socket and goes on sending; the process does not exit with 1.      *)
(***************************************************************************)
C14_QueryFailureNotFatal ==
    qfail =>
      /\ pc # "spin"
      /\ nq = npos + 1
      /\ spin_count < 0 /\ (0 - spin_count) \in Errnos /\ sp_cnt = spin_count
      /\ err = "" /\ exit_status # 1
      /\ idx >= 1 /\ socks[idx].spun = 1
      /\ (ret = 0 /\ idx < n_socks) => pc = "sendto"
      /\ (ret = 0 /\ idx >= n_socks) => pc \in {"report", "exit"}

\* the third query of the spin on the first socket failed; the second socket is sent on
C14_Witness ==
    /\ qfail /\ nq = 3 /\ npos = 2 /\ spin_count < 0
    /\ pc = "sendto" /\ idx = 1 /\ socks[1].spun = 1 /\ socks[2].sent = 1

(***************************************************************************)
(* C15: when no query fails the spin returns the number of queries it      *)
(* issued, min(p, 100000) for the position p of the first query that       *)
(* reports zero pending bytes: while the spin polls every answer so far    *)
(* was positive, and it returns either at its first zero answer or, with   *)
(* positive answers only, at its query number 100000.                      *)
(***************************************************************************)
C15_SpinCountIsFirstZero ==
    /\ (pc = "spin" /\ ~qfail) => (sp_cnt = nq /\ npos = nq)
    /\ (SpinReturned /\ ~qfail) =>
         /\ spin_count = nq
         /\ IF pend = 0
            THEN npos = nq - 1 /\ nq <= SpinCeiling
            ELSE npos = nq /\ nq = SpinCeiling

\* two positive answers, then zero: the spin returns 3
C15_Witness ==
    SpinReturned /\ ~qfail /\ pend = 0 /\ nq = 3 /\ npos = 2 /\ spin_count = 3

(***************************************************************************)
(* C16, as the specification words it: send_on_n_sockets_seq returns the   *)
(* full count, group size times per-socket count, when every send          *)
(* succeeded, and else the number of sends that succeeded before the       *)
(* failed one.                                                             *)
(***************************************************************************)
\* send_on_n_sockets_seq has returned
SchedReturned == pc = "report" \/ (pc = "exit" /\ exit_status = 0)

RECURSIVE SumSent(_)
SumSent(n) == IF n = 0 THEN 0 ELSE socks[n].sent + SumSent(n - 1)

\* every socket got all its sends
AllSent == idx = Len(socks) /\ \A j \in Group : socks[j].sent = SendsPerSocket

\* the scheduler stopped inside the sends of socket idx
StoppedAtIdx ==
    /\ idx + 1 \in Group
    /\ socks[idx + 1].sent >= 1 /\ socks[idx + 1].sent <= per_sock
    /\ \A j \in Group : j <= idx => socks[j].sent = per_sock
    /\ \A j \in Group : j > idx + 1 => socks[j].sent = 0

\* C16: the value send_on_n_sockets_seq returns is the count of packets sent
C16_Original ==
    SchedReturned =>
      \/ AllSent /\ ret = Len(socks) * SendsPerSocket
      \/ StoppedAtIdx /\ ret = SumSent(Len(socks)) - 1

(***************************************************************************)
(* C17: when run_test has returned, after a full run and after a run       *)
(* aborted by a failed send alike, no socket created by rds_socket is      *)
(* still open.                                                             *)
(***************************************************************************)
C17_AllSocketsClosed ==
    (pc = "exit" /\ exit_status = 0) => \A j \in Group : ~socks[j].open

(***************************************************************************)
(* C18: the placeholder destination port and the helper socket do not      *)
(* outlive the route probe.  The destination port is htons(1) only between *)
(* the helper's creation and its connect, the helper socket is open only   *)
(* during the probe, and both are gone (port 0, helper closed) once        *)
(* rds_socket binds, returns, and whenever a send is issued.  A process    *)
(* that died inside the probe is the one exception.                        *)
(***************************************************************************)
ProbeDied ==
    pc = "exit" /\ err \in {"unknown destination address family", "unable to connect",
                            "getsockname failed"}

C18_PlaceholderDiscarded ==
    /\ opt_dstaddr.port # 0 =>
         /\ opt_dstaddr.port = htons(1)
         /\ ufd
         /\ pc = "connect" \/ (pc = "exit" /\ err = "unable to connect")
    /\ ufd => (pc \in {"connect", "getsockname"} \/ ProbeDied)
    /\ (pc \in {"bind", "settos", "start"} \/ i >= 1 \/ SendPhase \/ ~NoSendYet) =>
         (opt_dstaddr.port = 0 /\ ~ufd)

\* the source was inferred by a probe and a send has been issued
C18_Witness ==
    /\ ~src_set /\ nprobes = 1 /\ pc = "sendto"
    /\ socks[1].sent >= 1 /\ opt_dstaddr.port = 0 /\ ~ufd

(***************************************************************************)
(* C19: with a non-zero TOS the TOS ioctl is applied to every socket of    *)
(* the group, after the socket's bind and before any send, and its failure *)
(* ends the process with status 1; with a TOS of zero (the default) the    *)
(* ioctl is never issued.                                                  *)
(***************************************************************************)
C19_TosHandling ==
    /\ \A j \in Group :
         /\ socks[j].tos => (socks[j].bound # <<>> /\ opt_tos # ULZero)
         /\ (j <= i /\ opt_tos # ULZero) => socks[j].tos
    /\ pc = "settos" =>
         /\ opt_tos # ULZero
         /\ socks[cur].bound # <<>> /\ ~socks[cur].tos
         /\ NoSendYet
    /\ ((SendPhase \/ ~NoSendYet) /\ opt_tos # ULZero) =>
         (Len(socks) = ULVal(nsockets) /\ \A j \in Group : socks[j].tos)
    /\ err = "ERROR: failed to set TOS" =>
         (pc = "exit" /\ exit_status = 1 /\ opt_tos # ULZero /\ NoSendYet)
    /\ opt_tos = ULZero =>
         (pc # "settos" /\ err # "ERROR: failed to set TOS" /\ \A j \in Group : ~socks[j].tos)

\* -Q 4: both sockets of the group were tagged and a send has been issued
C19_Witness ==
    /\ opt_tos = UL(4) /\ pc = "sendto" /\ Len(socks) = 2
    /\ socks[1].tos /\ socks[2].tos /\ socks[1].sent >= 1

(***************************************************************************)
(* C20: the source address is inferred at most once per run.  Without an   *)
(* explicit source only the creation of the first socket probes the route, *)
(* and with one no socket does; the probe writes the shared source         *)
(* address, and all sockets are bound to that one address with port 0.     *)
(***************************************************************************)
C20_ProbeOnce ==
    /\ nprobes <= 1
    /\ src_set => (nprobes = 0 /\ ~ufd)
    /\ pc \in {"udp_socket", "connect", "getsockname"} =>
         (~src_set /\ i = 0 /\ Len(socks) = 1)
    /\ (~src_set /\ i >= 1) => nprobes = 1
    /\ i >= 1 => (opt_srcaddr.family \in Families /\ opt_srcaddr.port = 0)
    /\ \A j \in Group :
         /\ socks[j].bound # <<>> =>
              /\ socks[j].bound = opt_srcaddr
              /\ socks[j].bound.port = 0
         /\ j <= i => socks[j].bound # <<>>

\* eight sockets bound to the address one probe inferred
C20_Witness ==
    /\ ~src_set /\ nprobes = 1 /\ i = 8 /\ Len(socks) = 8
    /\ \A j \in Group : socks[j].bound = [family |-> opt_dstaddr.family, port |-> 0]

(***************************************************************************)
(* C21: a run without packets.  When the packet count is zero, because no  *)
(* -c was given or -c 0 was, the group size is not clamped: it is the      *)
(* default 8 without -n, and no step other than a -n option changes it.    *)
(* All sockets of the group are created and bound before the scheduler     *)
(* runs, no send is issued on any socket and the scheduler returns 0, with *)
(* -s every socket the scheduler has left was spun on exactly once, and    *)
(* the total printed is 0.                                                  *)
(***************************************************************************)
ZeroCount == ULIsZero(opt_count)

NoPacketRun ==
    (RunEntered /\ ZeroCount) =>
      /\ ~num_sock_set => nsockets = UL(nsockets_default)
      /\ \A j \in Group :
           /\ socks[j].sent = 0
           /\ socks[j].spun = IF use_siocoutq /\ j <= idx THEN 1 ELSE 0
      /\ SendPhase =>
           /\ Len(socks) = ULVal(nsockets)
           /\ \A j \in Group : socks[j].open /\ socks[j].bound # <<>>
           /\ ret = 0
      /\ SchedReturned => idx = Len(socks)
      /\ out # <<>> => (out.packets = 0 /\ out.sockets = Len(socks))
      /\ (pc = "exit" /\ exit_status = 0) => out # <<>>

ZeroCountKeepsSize == (ZeroCount /\ ~OptN) => nsockets' = nsockets

\* C21: NoPacketRun in every state, ZeroCountKeepsSize in every step
C21_NoPacketRun == []NoPacketRun /\ [][ZeroCountKeepsSize]_vars

\* siocoutq -c 0 -s dst: eight sockets, each spun on once, no send, total 0
C21_Witness ==
    /\ pc = "exit" /\ exit_status = 0
    /\ count_set /\ ZeroCount /\ ~num_sock_set /\ use_siocoutq
    /\ Len(socks) = nsockets_default
    /\ \A j \in Group : socks[j].sent = 0 /\ socks[j].spun = 1
    /\ out.sockets = nsockets_default /\ out.packets = 0
====
